---- MODULE Spec2Model ----
(***************************************************************************)
(* plot_points_on_map (src/script.py): one synchronous call that turns a   *)
(* sequence of point records into circles on a folium map, fits the        *)
(* viewport, saves the map, prints a notice and opens the browser.         *)
(*                                                                         *)
(* Python values are tagged records so that a number, a string, None and   *)
(* an absent dictionary key stay distinguishable.  Coordinates are small   *)
(* integers; a quotient (the centre) is an exact reduced fraction          *)
(* <<numerator, denominator>>; opacities are counted in hundredths.        *)
(***************************************************************************)
EXTENDS Integers, Sequences, FiniteSets, TLC

VARIABLES
    pts,                 \* pts = list(points), line 23
    default_fill_color,  \* the keyword argument of line 12
    pc,                  \* the statement about to run, "done" or "raised"
    exc,                 \* the exception that ended the call and the line that raised it
    m,                   \* folium.Map of line 30 with its circles and fit_bounds calls
    lats,                \* line 32, line 57
    lons,                \* line 32, line 58
    i,                   \* position of the loop of line 34, from 1
    file,                \* the file at outfile: "absent", "partial" or "written"
    notices,             \* what line 68 printed
    opens,               \* the requests of line 71
    log                  \* the calls made on folium, print and webbrowser, in order

vars == <<pts, default_fill_color, pc, exc, m, lats, lons, i, file, notices, opens, log>>

(***************************************************************************)
(* Python values                                                           *)
(***************************************************************************)
Num(n) == [t |-> "num", n |-> n, s |-> ""]
Str(s) == [t |-> "str", n |-> 0, s |-> s]
None == [t |-> "none", n |-> 0, s |-> ""]
\* the key is not in the dictionary
Absent == [t |-> "absent", n |-> 0, s |-> ""]

Keys == {"lat", "lon", "radius_m", "color", "fill_color", "fill_opacity", "tooltip"}

\* a point record holding only the given keys
Point(d) == [k \in Keys |-> IF k \in DOMAIN d THEN d[k] ELSE Absent]

\* k in p
Has(p, k) == p[k] # Absent

\* p.get(k): None when the key is absent
Get(p, k) == IF Has(p, k) THEN p[k] ELSE None

\* p.get(k, d)
GetDefault(p, k, d) == IF Has(p, k) THEN p[k] ELSE d

\* bool(v): None, "" and 0 are false
Truthy(v) ==
    CASE v.t = "none" -> FALSE
      [] v.t = "str" -> v.s # ""
      [] v.t = "num" -> v.n # 0

\* a or b
Or(a, b) == IF Truthy(a) THEN a ELSE b

\* str(v) of None or of a string
PyStr(v) ==
    CASE v.t = "none" -> "None"
      [] v.t = "str" -> v.s

\* the strings float() parses, with their values
NumericStrings == {"1", "20"}

ParseFloat(s) == IF s = "1" THEN 1 ELSE 20

Ok(v) == [ok |-> TRUE, val |-> v, exc |-> ""]
Raise(e) == [ok |-> FALSE, val |-> 0, exc |-> e]

\* float(v)
Float(v) ==
    CASE v.t = "num" -> Ok(v.n)
      [] v.t = "str" -> IF v.s \in NumericStrings THEN Ok(ParseFloat(v.s)) ELSE Raise("ValueError")
      [] v.t = "none" -> Raise("TypeError")

\* float(p[k])
FloatItem(p, k) == IF Has(p, k) THEN Float(p[k]) ELSE Raise("KeyError")

(***************************************************************************)
(* Exact quotients                                                         *)
(***************************************************************************)
Abs(x) == IF x < 0 THEN -x ELSE x

RECURSIVE Gcd(_, _)
Gcd(a, b) == IF b = 0 THEN a ELSE Gcd(b, a % b)

\* a / n for n > 0, reduced
Quot(a, n) ==
    LET g == Gcd(Abs(a), n) IN <<a \div g, n \div g>>

(***************************************************************************)
(* Keyword arguments of plot_points_on_map left at their defaults          *)
(***************************************************************************)
default_radius_m == 10
default_color == "#3388ff"
\* 0.2, in hundredths
default_fill_opacity == 20
weight == 2
tiles == "OpenStreetMap"
outfile == "map.html"
initial_zoom == 17
\* padding=(10, 10) of fit_bounds
padding == 10

(***************************************************************************)
(* The statements of plot_points_on_map                                    *)
(***************************************************************************)
\* a slip of the emptiness test: it never finds the list empty
NotPtsNever(ps) == Len(ps) < 0

\* not pts
NotPts(ps) == Len(ps) = 0

\* sum(float(p[k]) for p in ps), from the j-th point on: the first conversion
\* that fails ends the sum
RECURSIVE SumFloat(_, _, _, _)
SumFloat(ps, k, j, acc) ==
    IF j > Len(ps) THEN Ok(acc)
    ELSE LET f == FloatItem(ps[j], k) IN
         IF f.ok THEN SumFloat(ps, k, j + 1, acc + f.val) ELSE f

\* a slip of the centre: the first point alone
AvgOfFirst(ps, k) ==
    IF Len(ps) = 0 THEN Raise("ZeroDivisionError")
    ELSE LET f == FloatItem(ps[1], k) IN
         IF f.ok THEN Ok(Quot(f.val, 1)) ELSE f

\* a slip of the centre: the sum leaves out the first point
AvgSkipsFirst(ps, k) ==
    LET total == SumFloat(ps, k, 2, 0) IN
    IF ~total.ok THEN total
    ELSE IF Len(ps) = 0 THEN Raise("ZeroDivisionError")
    ELSE Ok(Quot(total.val, Len(ps)))

\* sum(float(p[k]) for p in ps) / len(ps)
Avg(ps, k) ==
    LET total == SumFloat(ps, k, 1, 0) IN
    IF ~total.ok THEN total
    ELSE IF Len(ps) = 0 THEN Raise("ZeroDivisionError")
    ELSE Ok(Quot(total.val, Len(ps)))

\* float(p.get("radius_m", default_radius_m))
radius_m(p) == Float(GetDefault(p, "radius_m", Num(default_radius_m)))

\* str(p.get("color", default_color))
color(p) == PyStr(GetDefault(p, "color", Str(default_color)))

\* a slip of the fill colour: default_fill_color is tried before the point's color
fill_color_default_first(p, dfc) ==
    PyStr(Or(Get(p, "fill_color"), Or(dfc, Or(Get(p, "color"), Str(default_color)))))

\* str(p.get("fill_color") or p.get("color") or default_fill_color or default_color)
fill_color(p, dfc) ==
    PyStr(Or(Get(p, "fill_color"), Or(Get(p, "color"), Or(dfc, Str(default_color)))))

\* float(p.get("fill_opacity", default_fill_opacity))
fill_opacity(p) == Float(GetDefault(p, "fill_opacity", Num(default_fill_opacity)))

\* a slip of the tooltip test: if tooltip is not None
TooltipUnlessNone(p) ==
    LET tooltip == Get(p, "tooltip") IN
    IF tooltip # None THEN <<PyStr(tooltip)>> ELSE <<>>

\* the children of the circle: folium.Tooltip(str(tooltip)) if tooltip
Tooltip(p) ==
    LET tooltip == Get(p, "tooltip") IN
    IF Truthy(tooltip) THEN <<PyStr(tooltip)>> ELSE <<>>

\* the first conversion of the loop body that fails, in statement order
BodyExc(p) ==
    IF ~FloatItem(p, "lat").ok THEN [type |-> FloatItem(p, "lat").exc, line |-> 35]
    ELSE IF ~FloatItem(p, "lon").ok THEN [type |-> FloatItem(p, "lon").exc, line |-> 36]
    ELSE IF ~radius_m(p).ok THEN [type |-> radius_m(p).exc, line |-> 37]
    ELSE IF ~fill_opacity(p).ok THEN [type |-> fill_opacity(p).exc, line |-> 40]
    ELSE [type |-> "", line |-> 0]

\* folium.Circle(...) with its tooltip child
Circle(p, dfc) ==
    [location |-> <<FloatItem(p, "lat").val, FloatItem(p, "lon").val>>,
     radius |-> radius_m(p).val,
     color |-> color(p),
     weight |-> weight,
     fill |-> TRUE,
     fill_color |-> fill_color(p, dfc),
     fill_opacity |-> fill_opacity(p).val,
     opacity |-> 100,
     children |-> Tooltip(p)]

Range(s) == {s[j] : j \in DOMAIN s}
Min(s) == CHOOSE x \in Range(s) : \A y \in Range(s) : x <= y
Max(s) == CHOOSE x \in Range(s) : \A y \in Range(s) : x >= y

\* a slip of the corner: the first point instead of the minima
SouthWestOfFirst(las, los) == <<las[1], los[1]>>

\* sw = [min(lats), min(lons)]
SouthWest(las, los) == <<Min(las), Min(los)>>

\* ne = [max(lats), max(lons)]
NorthEast(las, los) == <<Max(las), Max(los)>>

\* a slip of the bounds test: the corners are not compared
SpreadApartAlways(las, los) == Len(las) # 0 /\ Len(los) # 0

\* if lats and lons: ... if sw != ne
SpreadApart(las, los) ==
    /\ Len(las) # 0
    /\ Len(los) # 0
    /\ SouthWest(las, los) # NorthEast(las, los)

\* a slip of the order: the browser is opened before the map is saved
StepsOpenFirst == <<"validate", "center", "loop", "fit", "open", "save", "print", "done">>

\* a slip of the order: the notice is printed before the map is saved
StepsNoticeFirst == <<"validate", "center", "loop", "fit", "print", "save", "open", "done">>

\* the order of the statements of the function body
Steps == <<"validate", "center", "loop", "fit", "save", "print", "open", "done">>

\* the statement after step s
After(s) == Steps[(CHOOSE j \in DOMAIN Steps : Steps[j] = s) + 1]

(***************************************************************************)
(* Inputs of one call                                                      *)
(***************************************************************************)
MaxPoints == 3

\* points that give only their coordinates
CoordPoints ==
    { Point([lat |-> Num(0), lon |-> Num(0)]),
      Point([lat |-> Num(1), lon |-> Num(-1)]),
      Point([lat |-> Num(-1), lon |-> Num(2)]) }

\* points whose lat or lon is missing, None or not a number
BadCoordPoints ==
    { Point([lon |-> Num(0)]),
      Point([lat |-> None, lon |-> Num(0)]),
      Point([lat |-> Num(0), lon |-> Str("abc")]) }

\* points with their own colours, radius, opacity and tooltip; the last writes
\* its latitude and radius as numeric strings
StyledPoints ==
    { Point([lat |-> Num(1), lon |-> Num(2), color |-> Str("red"), tooltip |-> Str("X")]),
      Point([lat |-> Num(0), lon |-> Num(0), color |-> Str("red"), fill_color |-> Str("blue"),
             radius_m |-> Num(20), fill_opacity |-> Num(50), tooltip |-> Str("Y")]),
      Point([lat |-> Num(0), lon |-> Num(0), color |-> Str(""), fill_color |-> None,
             tooltip |-> Str("")]),
      Point([lat |-> Num(0), lon |-> Num(0), color |-> None, tooltip |-> None]),
      Point([lat |-> Num(0), lon |-> Num(0), color |-> Str("red"), fill_color |-> Str("")]),
      Point([lat |-> Str("1"), lon |-> Num(-1), fill_color |-> Str("blue"), radius_m |-> Str("20")]) }

\* points whose radius_m or fill_opacity does not convert
BadStylePoints ==
    { Point([lat |-> Num(0), lon |-> Num(0), radius_m |-> Str("big")]),
      Point([lat |-> Num(1), lon |-> Num(-1), fill_opacity |-> None]) }

Points == CoordPoints \cup BadCoordPoints \cup StyledPoints \cup BadStylePoints

DefaultFillColors == {None, Str(""), Str("green")}

Inputs == UNION {[1..n -> Points] : n \in 0..MaxPoints}

NoExc == [type |-> "", line |-> 0]

NoMap == [created |-> FALSE, location |-> <<>>, zoom_start |-> 0, tiles |-> "",
          children |-> <<>>, fit_bounds |-> <<>>]

Init ==
    /\ pts \in Inputs
    /\ default_fill_color \in DefaultFillColors
    /\ pc = "validate"
    /\ exc = NoExc
    /\ m = NoMap
    /\ lats = <<>>
    /\ lons = <<>>
    /\ i = 1
    /\ file = "absent"
    /\ notices = <<>>
    /\ opens = <<>>
    /\ log = <<>>

(***************************************************************************)
(* Steps of the call                                                       *)
(***************************************************************************)
\* pts = list(points); if not pts: raise ValueError
ValidateRaises ==
    /\ pc = "validate"
    /\ NotPts(pts)
    /\ pc' = "raised"
    /\ exc' = [type |-> "ValueError", line |-> 25]
    /\ UNCHANGED <<pts, default_fill_color, m, lats, lons, i, file, notices, opens, log>>

Validate ==
    /\ pc = "validate"
    /\ ~NotPts(pts)
    /\ pc' = After("validate")
    /\ UNCHANGED <<pts, default_fill_color, exc, m, lats, lons, i, file, notices, opens, log>>

\* the exception of avg_lat, else of avg_lon, else none
CenterExc ==
    IF ~Avg(pts, "lat").ok THEN [type |-> Avg(pts, "lat").exc, line |-> 28]
    ELSE IF ~Avg(pts, "lon").ok THEN [type |-> Avg(pts, "lon").exc, line |-> 29]
    ELSE NoExc

\* avg_lat or avg_lon raises: no map is made
CenterRaises ==
    /\ pc = "center"
    /\ CenterExc # NoExc
    /\ pc' = "raised"
    /\ exc' = CenterExc
    /\ UNCHANGED <<pts, default_fill_color, m, lats, lons, i, file, notices, opens, log>>

\* avg_lat, avg_lon, m = folium.Map(...), lats, lons = [], []
CreateMap ==
    /\ pc = "center"
    /\ CenterExc = NoExc
    /\ m' = [created |-> TRUE,
             location |-> <<Avg(pts, "lat").val, Avg(pts, "lon").val>>,
             zoom_start |-> initial_zoom,
             tiles |-> tiles,
             children |-> <<>>,
             fit_bounds |-> <<>>]
    /\ lats' = <<>>
    /\ lons' = <<>>
    /\ i' = 1
    /\ log' = Append(log, "Map")
    /\ pc' = After("center")
    /\ UNCHANGED <<pts, default_fill_color, exc, file, notices, opens>>

\* one iteration of for p in pts whose conversions raise
DrawRaises ==
    /\ pc = "loop"
    /\ i <= Len(pts)
    /\ BodyExc(pts[i]) # NoExc
    /\ pc' = "raised"
    /\ exc' = BodyExc(pts[i])
    /\ UNCHANGED <<pts, default_fill_color, m, lats, lons, i, file, notices, opens, log>>

\* one iteration of for p in pts
DrawCircle ==
    /\ pc = "loop"
    /\ i <= Len(pts)
    /\ BodyExc(pts[i]) = NoExc
    /\ m' = [m EXCEPT !.children = Append(@, Circle(pts[i], default_fill_color))]
    /\ lats' = Append(lats, FloatItem(pts[i], "lat").val)
    /\ lons' = Append(lons, FloatItem(pts[i], "lon").val)
    /\ i' = i + 1
    /\ log' = Append(log, "Circle")
    /\ UNCHANGED <<pts, default_fill_color, pc, exc, file, notices, opens>>

\* the loop is exhausted
EndLoop ==
    /\ pc = "loop"
    /\ i > Len(pts)
    /\ pc' = After("loop")
    /\ UNCHANGED <<pts, default_fill_color, exc, m, lats, lons, i, file, notices, opens, log>>

\* if lats and lons: sw, ne; if sw != ne: m.fit_bounds([sw, ne], padding=(10, 10))
FitBounds ==
    /\ pc = "fit"
    /\ m' = IF SpreadApart(lats, lons)
            THEN [m EXCEPT !.fit_bounds = Append(@, [sw |-> SouthWest(lats, lons),
                                                     ne |-> NorthEast(lats, lons),
                                                     padding |-> <<padding, padding>>])]
            ELSE m
    /\ log' = IF SpreadApart(lats, lons) THEN Append(log, "fit_bounds") ELSE log
    /\ pc' = After("fit")
    /\ UNCHANGED <<pts, default_fill_color, exc, lats, lons, i, file, notices, opens>>

\* m.save(outfile)
Save ==
    /\ pc = "save"
    /\ file' = "written"
    /\ log' = Append(log, "save")
    /\ pc' = After("save")
    /\ UNCHANGED <<pts, default_fill_color, exc, m, lats, lons, i, notices, opens>>

\* m.save(outfile) raises: the file was not opened for writing, or it was opened
\* and left incomplete
SaveRaises ==
    /\ pc = "save"
    /\ \E left \in {file, "partial"} : file' = left
    /\ pc' = "raised"
    /\ exc' = [type |-> "Exception", line |-> 67]
    /\ UNCHANGED <<pts, default_fill_color, m, lats, lons, i, notices, opens, log>>

\* print(f"Map saved to {outfile}")
Notice ==
    /\ pc = "print"
    /\ notices' = Append(notices, <<"Map saved to ", outfile>>)
    /\ log' = Append(log, "print")
    /\ pc' = After("print")
    /\ UNCHANGED <<pts, default_fill_color, exc, m, lats, lons, i, file, opens>>

\* print raises (standard output is closed)
NoticeRaises ==
    /\ pc = "print"
    /\ pc' = "raised"
    /\ exc' = [type |-> "Exception", line |-> 68]
    /\ UNCHANGED <<pts, default_fill_color, m, lats, lons, i, file, notices, opens, log>>

\* webbrowser.open(outfile); its result is dropped
OpenBrowser ==
    /\ pc = "open"
    /\ opens' = Append(opens, outfile)
    /\ log' = Append(log, "open")
    /\ pc' = After("open")
    /\ UNCHANGED <<pts, default_fill_color, exc, m, lats, lons, i, file, notices>>

\* webbrowser.open raises
OpenRaises ==
    /\ pc = "open"
    /\ pc' = "raised"
    /\ exc' = [type |-> "Exception", line |-> 71]
    /\ UNCHANGED <<pts, default_fill_color, m, lats, lons, i, file, notices, opens, log>>

Next ==
    \/ ValidateRaises
    \/ Validate
    \/ CenterRaises
    \/ CreateMap
    \/ DrawRaises
    \/ DrawCircle
    \/ EndLoop
    \/ FitBounds
    \/ Save
    \/ SaveRaises
    \/ Notice
    \/ NoticeRaises
    \/ OpenBrowser
    \/ OpenRaises

Spec == Init /\ [][Next]_vars

(***************************************************************************)
(* Properties                                                              *)
(***************************************************************************)
\* nothing of the rendering exists: no map, no circle, no file, no browser request
NothingRendered ==
    /\ ~m.created
    /\ m.children = <<>>
    /\ file = "absent"
    /\ notices = <<>>
    /\ opens = <<>>

\* C1: an empty input fails with the ValueError of line 25 before any map object
\* is created: no map, no circle, no output file and no browser request.
C1_EmptyInputFails ==
    pts = <<>> =>
        /\ pc \in {"validate", "raised"}
        /\ pc = "raised" => exc = [type |-> "ValueError", line |-> 25]
        /\ NothingRendered
        /\ log = <<>>

C1_Witness == pts = <<>> /\ pc = "raised" /\ exc.type = "ValueError"

\* what is wrong with a lat or lon value: the key is missing, the value is None,
\* or it is a string that is no number
CoordFault(v) ==
    IF v = Absent THEN "KeyError"
    ELSE IF v = None THEN "TypeError"
    ELSE IF v.t = "str" /\ v.s \notin NumericStrings THEN "ValueError"
    ELSE ""

HasBadCoord == \E j \in DOMAIN pts : \E k \in {"lat", "lon"} : CoordFault(pts[j][k]) # ""

\* the first offending field: every lat in input order, then every lon
FirstCoordFault ==
    IF \E j \in DOMAIN pts : CoordFault(pts[j]["lat"]) # ""
    THEN LET j == CHOOSE a \in DOMAIN pts :
                      /\ CoordFault(pts[a]["lat"]) # ""
                      /\ \A b \in 1..(a - 1) : CoordFault(pts[b]["lat"]) = ""
         IN [type |-> CoordFault(pts[j]["lat"]), line |-> 28]
    ELSE LET j == CHOOSE a \in DOMAIN pts :
                      /\ CoordFault(pts[a]["lon"]) # ""
                      /\ \A b \in 1..(a - 1) : CoordFault(pts[b]["lon"]) = ""
         IN [type |-> CoordFault(pts[j]["lon"]), line |-> 29]

\* C2 as stated: a point with a missing or non-numeric lat or lon makes the call
\* fail with the error kind of the empty input (ValueError), nothing rendered.
C2_SameKindAsEmptyInput ==
    HasBadCoord =>
        /\ pc \in {"validate", "center", "raised"}
        /\ pc = "raised" => exc.type = "ValueError"
        /\ NothingRendered

\* C2 amended: a point with a missing or non-numeric lat or lon, at any position,
\* makes the call fail while the centre is computed, with the error of the first
\* offending field (every lat in input order, then every lon): KeyError for a
\* missing key, TypeError for None, ValueError for a non-numeric string; no map,
\* no circle, no file and no browser request.
C2_BadCoordinateFails ==
    HasBadCoord =>
        /\ pc \in {"validate", "center", "raised"}
        /\ pc = "raised" => exc = FirstCoordFault
        /\ NothingRendered

C2_Witness ==
    /\ Len(pts) >= 2
    /\ CoordFault(pts[1]["lat"]) = "" /\ CoordFault(pts[1]["lon"]) = ""
    /\ CoordFault(pts[2]["lat"]) = "KeyError"
    /\ pc = "raised"
    /\ exc.type = "KeyError"

\* C3 as stated: a run ends in full success or in an error with no output; the
\* file is never written by a run that ends in error, and the browser is never
\* opened without the file.
C3_AllOrNothing ==
    /\ pc = "done" => file = "written" /\ opens # <<>>
    /\ pc = "raised" => file = "absent" /\ opens = <<>>
    /\ opens # <<>> => file = "written"

\* C3 amended: a run ends in full success (file written, then one browser
\* request) or in a raised error.  An error raised before the save (lines 25 to
\* 40) leaves no file and no browser request; a save that raises leaves no
\* complete file and no browser request; the browser is never requested without
\* the written file; but when the notice or the browser request raises, the file
\* is already written and stays.
C3_OutputOnlyAfterSave ==
    /\ pc = "done" => file = "written" /\ opens = <<outfile>>
    /\ pc = "raised" /\ exc.line \in {25, 28, 29, 35, 36, 37, 40} =>
           file = "absent" /\ notices = <<>> /\ opens = <<>>
    /\ pc = "raised" /\ exc.line = 67 => file # "written" /\ opens = <<>>
    /\ pc = "raised" /\ exc.line \in {68, 71} => file = "written" /\ opens = <<>>
    /\ pc = "raised" => exc.line \in {25, 28, 29, 35, 36, 37, 40, 67, 68, 71}
    /\ opens # <<>> => file = "written"

C3_Witness == pc = "raised" /\ exc.line = 71 /\ file = "written" /\ Len(m.children) = Len(pts)

\* a field that is present with a value other than None and the empty string
Given(v) == v # Absent /\ v # None /\ v # Str("")

\* C4: the fill colour of every circle is the point's fill_color if given (present,
\* not None, not empty); else the point's color if given; else default_fill_color
\* if given; else default_color.
C4_FillColorChain ==
    \A j \in DOMAIN m.children :
        m.children[j].fill_color =
            IF Given(pts[j]["fill_color"]) THEN pts[j]["fill_color"].s
            ELSE IF Given(pts[j]["color"]) THEN pts[j]["color"].s
            ELSE IF Given(default_fill_color) THEN default_fill_color.s
            ELSE default_color

\* a point with only color and a point with neither, default_fill_color being set
C4_Witness ==
    /\ default_fill_color = Str("green")
    /\ \E j, k \in DOMAIN m.children :
        /\ pts[j]["fill_color"] = Absent /\ pts[j]["color"] = Str("red")
        /\ m.children[j].fill_color = "red"
        /\ pts[k]["fill_color"] = Absent /\ pts[k]["color"] = Absent
        /\ m.children[k].fill_color = "green"

\* the coordinates of the j-th input point
LatOf(j) == FloatItem(pts[j], "lat").val
LonOf(j) == FloatItem(pts[j], "lon").val

AllCoordsOk == ~HasBadCoord

\* the input spans at least two distinct coordinates
SpansDistinct ==
    /\ AllCoordsOk
    /\ \E j, k \in DOMAIN pts : <<LatOf(j), LonOf(j)>> # <<LatOf(k), LonOf(k)>>

\* all points of a non-empty input share one coordinate
AllCoincide ==
    /\ AllCoordsOk
    /\ pts # <<>>
    /\ \A j, k \in DOMAIN pts : <<LatOf(j), LonOf(j)>> = <<LatOf(k), LonOf(k)>>

\* the run is past the bounds step
PastFit == pc \in {"save", "print", "open", "done"} \/ (pc = "raised" /\ exc.line >= 67)

\* the corners over the whole input, as sets
InputSouthWest ==
    << CHOOSE x \in {LatOf(j) : j \in DOMAIN pts} : \A j \in DOMAIN pts : x <= LatOf(j),
       CHOOSE y \in {LonOf(j) : j \in DOMAIN pts} : \A j \in DOMAIN pts : y <= LonOf(j) >>

InputNorthEast ==
    << CHOOSE x \in {LatOf(j) : j \in DOMAIN pts} : \A j \in DOMAIN pts : x >= LatOf(j),
       CHOOSE y \in {LonOf(j) : j \in DOMAIN pts} : \A j \in DOMAIN pts : y >= LonOf(j) >>

\* C5: when the points span at least two distinct coordinates, a run that gets
\* past the loop issues exactly one bounds fit, after every circle is drawn and
\* before the file is written, with corners (min lat, min lon) and (max lat,
\* max lon) over all input points.
C5_BoundsFit ==
    /\ Len(m.fit_bounds) <= 1
    /\ m.fit_bounds # <<>> => Len(m.children) = Len(pts) /\ PastFit
    /\ PastFit /\ SpansDistinct =>
           m.fit_bounds = << [sw |-> InputSouthWest, ne |-> InputNorthEast,
                              padding |-> <<padding, padding>>] >>
    /\ file # "absent" /\ SpansDistinct => Len(m.fit_bounds) = 1
    /\ pc = "done" /\ SpansDistinct =>
           \E n \in DOMAIN log :
               /\ log[n] = "fit_bounds"
               /\ \A b \in DOMAIN log : log[b] = "Circle" => b < n
               /\ \A b \in DOMAIN log : log[b] = "save" => b > n

\* the corners come from different points
C5_Witness ==
    /\ pc = "done"
    /\ Len(pts) >= 2
    /\ m.fit_bounds # <<>>
    /\ \A j \in DOMAIN pts :
           <<LatOf(j), LonOf(j)>> # m.fit_bounds[1].sw /\ <<LatOf(j), LonOf(j)>> # m.fit_bounds[1].ne

\* C6: when all points share one coordinate, no bounds fit is ever issued, the
\* map keeps that coordinate as its centre and the initial zoom, and a run that
\* completes has written the file and requested the browser.
C6_CoincidentPointsNoFit ==
    m.created /\ AllCoincide =>
        /\ m.fit_bounds = <<>>
        /\ "fit_bounds" \notin Range(log)
        /\ m.location = << <<LatOf(1), 1>>, <<LonOf(1), 1>> >>
        /\ m.zoom_start = initial_zoom
        /\ pc = "done" => file = "written" /\ opens = <<outfile>>

C6_Witness ==
    /\ pc = "done"
    /\ Len(pts) >= 2
    /\ pts[1] # pts[2]
    /\ AllCoincide
    /\ LatOf(1) # 0

\* f[1] + ... + f[n]
RECURSIVE SumTo(_, _)
SumTo(f, n) == IF n = 0 THEN 0 ELSE SumTo(f, n - 1) + f[n]

\* C7: the map is created, before any circle is drawn, with centre (sum of all
\* lat / n, sum of all lon / n) over the n input points, whatever their order.
C7_CenterIsMean ==
    /\ m.children # <<>> => m.created
    /\ log # <<>> => log[1] = "Map"
    /\ m.created =>
        /\ m.location[1][2] > 0
        /\ m.location[2][2] > 0
        /\ m.location[1][1] * Len(pts)
               = m.location[1][2] * SumTo([j \in DOMAIN pts |-> LatOf(j)], Len(pts))
        /\ m.location[2][1] * Len(pts)
               = m.location[2][2] * SumTo([j \in DOMAIN pts |-> LonOf(j)], Len(pts))
    /\ pc = "loop" /\ i = 1 =>
           \A f \in Permutations(DOMAIN pts) :
               LET q == [j \in DOMAIN pts |-> pts[f[j]]] IN
               m.location = <<Avg(q, "lat").val, Avg(q, "lon").val>>

\* a mean that is no whole number
C7_Witness ==
    /\ m.created
    /\ Len(pts) = 3
    /\ m.location[1][2] = 3
    /\ m.location[2][2] = 3
    /\ m.children # <<>>

\* C8: the circle of a point carries a tooltip exactly when the point's tooltip is
\* given (present, not None, not empty), and that tooltip is the point's own text.
C8_TooltipOnlyWhenGiven ==
    \A j \in DOMAIN m.children :
        m.children[j].children =
            IF Given(pts[j]["tooltip"]) THEN <<pts[j]["tooltip"].s>> ELSE <<>>

C8_Witness ==
    \E j, k, n \in DOMAIN m.children :
        /\ pts[j]["tooltip"] = Str("X") /\ m.children[j].children = <<"X">>
        /\ pts[k]["tooltip"] = Absent /\ m.children[k].children = <<>>
        /\ pts[n]["tooltip"] = Str("Y") /\ m.children[n].children = <<"Y">>

\* C9: a run that completes has drawn every circle, then fitted the bounds if
\* it does, then written the file once at outfile, then printed one notice
\* naming outfile, then requested the browser once for outfile; the browser is
\* never requested before the file is written.
C9_OneSaveNoticeOpenInOrder ==
    /\ pc = "done" =>
        /\ file = "written"
        /\ notices = << <<"Map saved to ", outfile>> >>
        /\ opens = <<outfile>>
        /\ log = <<"Map">> \o [j \in DOMAIN pts |-> "Circle"]
                   \o (IF m.fit_bounds # <<>> THEN <<"fit_bounds">> ELSE <<>>)
                   \o <<"save", "print", "open">>
    /\ "open" \in Range(log) => file = "written" /\ "save" \in Range(log)
    /\ notices # <<>> => file = "written"

C9_Witness == pc = "done" /\ Len(pts) = 3 /\ m.fit_bounds # <<>> /\ Len(log) = 8

\* C10: on a run that completes there is one circle per input point, in input
\* order, at the point's (lat, lon), with the point's own radius_m if present
\* else default_radius_m, and the point's own color if present else default_color.
C10_CirclesAsGiven ==
    pc = "done" =>
        /\ Len(m.children) = Len(pts)
        /\ \A j \in DOMAIN pts :
            /\ m.children[j].location = <<LatOf(j), LonOf(j)>>
            /\ Ok(m.children[j].radius)
                   = Float(IF Has(pts[j], "radius_m") THEN pts[j]["radius_m"] ELSE Num(default_radius_m))
            /\ Str(m.children[j].color)
                   = IF Has(pts[j], "color") THEN pts[j]["color"] ELSE Str(default_color)

====
